---- MODULE Spec2Model ----
(***************************************************************************)
(* EVO charger CAN codec (utils_canBus_charger_level1.c .. level4.c).      *)
(*                                                                         *)
(* The codec is a set of C functions over caller-owned 8-byte buffers and  *)
(* value structs.  Each function is one action; its arguments are drawn    *)
(* with \E from bounded sets, its result is left in the variables that     *)
(* stand for the caller's buffer, struct and return value.                 *)
(*                                                                         *)
(* float is IEEE-754 binary32.  A finite float is the record               *)
(* [m |-> mantissa, k |-> exponent] of value m / 2^k with                  *)
(* 2^23 <= |m| < 2^24 (or m = 0): products are rounded to nearest-even as  *)
(* the hardware does, so that the truncating cast is computed on the       *)
(* value the C expression really has.                                      *)
(***************************************************************************)
EXTENDS Integers, Sequences, FiniteSets, TLC

VARIABLES
    op,          \* the last call (see Call)
    ctl,         \* per caller: the CanPacket_Ctl_t last encoded
    can_data,    \* per caller: the uint8_t data[8] buffer of the control packet
    raw,         \* per caller: the locals iac_raw, vout_raw, iout_raw of the last encode
    ret,         \* per caller: the bool returned by the last encode
    fault_data,  \* the 8-byte fault frame handed to the level-2 functions
    fault,       \* the CanPacket_Fault_t of the last call, after it
    fault0,      \* the same struct as it was before the call
    fret,        \* value returned by the last level-2 call
    out,         \* what CanBus_Debug_PrintFault printed
    rx_id,       \* which message the received frame is: the decoder it is handed to
    rx_data,     \* the 8-byte payload of the received frame
    dec,         \* per caller: its output struct, after the last decode
    dec0,        \* per caller: the same struct as it was before the call
    dec_raw,     \* per caller: the uint16_t locals of the last decode
    dret,        \* per caller: the bool returned by the last decode
    req,         \* the arguments enable, request_type of the request encoder
    req_data,    \* the uint8_t data[8] buffer of the request
    req_data0,   \* the same buffer as it was before the call
    req_ret,     \* the bool returned by the last request encode
    seeded,      \* the static bool seeded of CanBus_GenerateRandomPacket
    srand_calls, \* how many times srand has been called
    rand_state,  \* the state of the C library's generator
    gen,         \* per thread in CanBus_GenerateRandomPacket: position, buffer, calls made and returned
    thr          \* per thread stepping through a codec call: function, position, arguments, locals

vars == <<op, ctl, can_data, raw, ret, fault_data, fault, fault0, fret, out,
          rx_id, rx_data, dec, dec0, dec_raw, dret, req, req_data, req_data0, req_ret,
          seeded, srand_calls, rand_state, gen, thr>>

ctlVars   == <<ctl, can_data, raw, ret>>
faultVars == <<fault_data, fault, fault0, fret, out>>
decVars   == <<rx_id, rx_data, dec, dec0, dec_raw, dret>>
reqVars   == <<req, req_data, req_data0, req_ret>>
randVars  == <<seeded, srand_calls, rand_state, gen>>
codecVars == <<op, ctlVars, faultVars, decVars, reqVars>>

(***************************************************************************)
(* Bounds of the model.                                                    *)
(***************************************************************************)
\* setpoints 0.00 .. GridMax/100 are enumerated one hundredth at a time
GridMax == 6

(***************************************************************************)
(* Integer helpers: the C operators & | >> on unsigned values.             *)
(***************************************************************************)
RECURSIVE BitAnd(_, _)
BitAnd(a, b) ==
    IF a = 0 \/ b = 0 THEN 0
    ELSE (a % 2) * (b % 2) + 2 * BitAnd(a \div 2, b \div 2)

RECURSIVE BitOr(_, _)
BitOr(a, b) ==
    IF a = 0 THEN b
    ELSE IF b = 0 THEN a
    ELSE (IF (a % 2) + (b % 2) > 0 THEN 1 ELSE 0) + 2 * BitOr(a \div 2, b \div 2)

Shr(a, n) == a \div (2 ^ n)

Shl(a, n) == a * (2 ^ n)

\* (uint8_t)x for a non-negative int x
U8(x) == x % 256

\* (uint16_t)x for a non-negative int x
U16(x) == x % 65536

Byte == 0 .. 255

(***************************************************************************)
(* binary32 arithmetic.                                                    *)
(***************************************************************************)
MantMin == 2 ^ 23
MantMax == 2 ^ 24

F32Zero == [m |-> 0, k |-> 0]

\* round-to-nearest, ties-to-even of n / d  (n >= 0, d > 0)
RoundNearestEven(n, d) ==
    LET q == n \div d
        r == n % d
    IN  IF 2 * r > d \/ (2 * r = d /\ q % 2 = 1) THEN q + 1 ELSE q

\* a mantissa that rounding carried up to 2^24 is renormalised
F32Norm(m, k) == IF m = MantMax THEN [m |-> MantMin, k |-> k - 1] ELSE [m |-> m, k |-> k]

RECURSIVE F32ScaleUp(_, _, _)
F32ScaleUp(v, k, lo) == IF v >= lo THEN <<v, k>> ELSE F32ScaleUp(2 * v, k + 1, lo)

\* the float nearest to n / d, for 0 < n / d < 2^24 (a decimal literal such
\* as 16.05f is n = 1605, d = 100; the quotient raw / 10.0f is n = raw, d = 10)
F32OfRatio(n, d) ==
    IF n = 0 THEN F32Zero
    ELSE LET a  == IF n < 0 THEN -n ELSE n
             sc == F32ScaleUp(a, 0, d * MantMin)
             r  == F32Norm(RoundNearestEven(sc[1], d), sc[2])
         IN  [m |-> IF n < 0 THEN -(r.m) ELSE r.m, k |-> r.k]

F32FromHundredths(h) == F32OfRatio(h, 100)

F32FromInt(n) == F32OfRatio(n, 1)

\* f < 0.0f
F32IsNegative(f) == f.m < 0

\* f > c for a float f >= 0 and an integer-valued constant c >= 0
F32GtInt(f, c) ==
    LET ip == f.m \div (2 ^ f.k)
    IN  ip > c \/ (ip = c /\ f.m % (2 ^ f.k) # 0)

\* f * 10 in float arithmetic (f >= 0): the exact product 10 m / 2^k rounded
\* back to a 24-bit mantissa
F32Mul10(f) ==
    IF f.m = 0 THEN F32Zero
    ELSE LET p == 10 * f.m
             s == IF p < 8 * MantMax THEN 3 ELSE 4
         IN  F32Norm(RoundNearestEven(p, 2 ^ s), f.k - s)

\* the integer part of a float f >= 0 (the value a cast to an integer type
\* starts from)
F32Trunc(f) == f.m \div (2 ^ f.k)

\* (uint16_t)x for a float whose integer part is v.  A value that does not
\* fit the type is undefined behaviour (C11 6.3.1.4): compiled code keeps the
\* low 16 bits of the 32-bit conversion, the constant folder saturates.
FloatToU16(v) == IF v <= 65535 THEN {v} ELSE {v % 65536, 65535}

\* the smallest s >= from with hi < 2^(12 + s)
RECURSIVE F32ProductShift(_, _)
F32ProductShift(hi, from) ==
    IF hi < 2 ^ (12 + from) THEN from ELSE F32ProductShift(hi, from + 1)

\* (float)n * f in float arithmetic, for an integer 0 <= n < 2^16 and a float
\* f > 0.  The exact product n m / 2^k has up to 40 bits: it is kept as
\* hi * 2^12 + lo and rounded to nearest-even at the 24-bit mantissa.
F32MulInt(n, f) ==
    IF n = 0 \/ f.m = 0 THEN F32Zero
    ELSE LET a   == n * (f.m \div 4096)
             b   == n * (f.m % 4096)
             hi  == a + (b \div 4096)
             lo  == b % 4096
             s   == F32ProductShift(hi, 0)
             q   == IF s >= 12 THEN hi \div (2 ^ (s - 12))
                    ELSE hi * (2 ^ (12 - s)) + (lo \div (2 ^ s))
             rem == IF s >= 12 THEN (hi % (2 ^ (s - 12))) * 4096 + lo
                    ELSE lo % (2 ^ s)
             up  == 2 * rem > 2 ^ s \/ (2 * rem = 2 ^ s /\ q % 2 = 1)
         IN  IF q < MantMin
             THEN LET sc == F32ScaleUp(q, f.k, MantMin) IN [m |-> sc[1], k |-> sc[2]]
             ELSE F32Norm(IF up THEN q + 1 ELSE q, f.k - s)

\* the smallest s >= from with a < 2^(24 + s)
RECURSIVE F32MantShift(_, _)
F32MantShift(a, from) ==
    IF a \div (2 ^ from) < MantMax THEN from ELSE F32MantShift(a, from + 1)

\* the float of magnitude (a + d) / 2^k, a >= 0 an integer and 0 <= d < 1
\* (d > 0 iff sticky), rounded to nearest-even; sign -1 or 1
F32Round(sign, a, sticky, k) ==
    IF a = 0 /\ ~sticky THEN F32Zero
    ELSE IF a < MantMin
    THEN LET sc == F32ScaleUp(a, k, MantMin) IN [m |-> sign * sc[1], k |-> sc[2]]
    ELSE LET s  == F32MantShift(a, 0)
             q  == a \div (2 ^ s)
             r  == a % (2 ^ s)
             up == IF sticky THEN s > 0 /\ 2 * r >= 2 ^ s
                   ELSE 2 * r > 2 ^ s \/ (2 * r = 2 ^ s /\ q % 2 = 1)
             n  == F32Norm(IF up THEN q + 1 ELSE q, k - s)
         IN  [m |-> sign * n.m, k |-> n.k]

\* x - 40.0f in float arithmetic, for a float x >= 0: the exact difference
\* rounded to nearest-even.  A small x is first cut at 2^-25, the bits cut
\* off being remembered as sticky.
F32Sub40(x) ==
    LET kk     == IF x.k > 25 THEN 25 ELSE x.k
        cut    == 2 ^ (x.k - kk)
        mm     == x.m \div cut
        sticky == x.m % cut # 0
        n      == mm - 40 * (2 ^ kk)
    IN  IF n >= 0 THEN F32Round(1, n, sticky, kk)
        ELSE IF sticky THEN F32Round(-1, (-n) - 1, TRUE, kk)
        ELSE F32Round(-1, -n, FALSE, kk)

\* the float constants of the decoders
F32_0_1      == F32OfRatio(1, 10)
F32_0_2      == F32OfRatio(2, 10)
F32_0_01     == F32OfRatio(1, 100)
F32_0_005188 == [m |-> 11141145, k |-> 31]

(***************************************************************************)
(* Level 1: control packet (BMS -> charger), ID 0x618.                     *)
(***************************************************************************)
\* float voltage_V -> the values the uint16_t return can take
Voltage_ToRawCan(voltage_V) ==
    LET v1 == IF F32IsNegative(voltage_V) THEN F32Zero ELSE voltage_V
        v2 == IF F32GtInt(v1, 10000) THEN F32FromInt(10000) ELSE v1
    IN  FloatToU16(F32Trunc(F32Mul10(v2)))

CurrentOut_ToRawCan(current_A) ==
    LET c1 == IF F32IsNegative(current_A) THEN F32Zero ELSE current_A
        c2 == IF F32GtInt(c1, 1500) THEN F32FromInt(1500) ELSE c1
    IN  FloatToU16(F32Trunc(F32Mul10(c2)))

CurrentAC_ToRawCAN(current_A) ==
    LET c1 == IF F32IsNegative(current_A) THEN F32Zero ELSE current_A
        c2 == IF F32GtInt(c1, 500) THEN F32FromInt(500) ELSE c1
    IN  FloatToU16(F32Trunc(F32Mul10(c2)))

\* the high byte taken without the shift
Ctl_StoreMsb_NoShift(v) == U8(BitAnd(v, 255))

\* the 16-bit value v stored at data[i], data[i+1] by the two assignments
\* data[i] = (uint8_t)((v >> 8) & 0xFF); data[i+1] = (uint8_t)(v & 0xFF);
Ctl_StoreMsb(v) == U8(BitAnd(Shr(v, 8), 255))

Ctl_StoreLsb(v) == U8(BitAnd(v, 255))

\* data[0] after  data[0] = 0x00; if (can_enable) |= 0x80; if (led3_enable) |= 0x08;
Ctl_Flags(c) ==
    LET f0 == 0
        f1 == IF c.can_enable THEN BitOr(f0, 128) ELSE f0
        f2 == IF c.led3_enable THEN BitOr(f1, 8) ELSE f1
    IN  f2

\* the three values stored least significant byte first
Ctl_Bytes_LittleEndian(c, iac_raw, vout_raw, iout_raw) ==
    [i \in 0 .. 7 |->
        CASE i = 0 -> Ctl_Flags(c)
          [] i = 1 -> Ctl_StoreLsb(iac_raw)
          [] i = 2 -> Ctl_StoreMsb(iac_raw)
          [] i = 3 -> Ctl_StoreLsb(vout_raw)
          [] i = 4 -> Ctl_StoreMsb(vout_raw)
          [] i = 5 -> Ctl_StoreLsb(iout_raw)
          [] i = 6 -> Ctl_StoreMsb(iout_raw)
          [] OTHER -> 0]

\* the buffer CanBus_CreatePacket_Ctl leaves for the three converted values
Ctl_Bytes(c, iac_raw, vout_raw, iout_raw) ==
    [i \in 0 .. 7 |->
        CASE i = 0 -> Ctl_Flags(c)
          [] i = 1 -> Ctl_StoreMsb(iac_raw)
          [] i = 2 -> Ctl_StoreLsb(iac_raw)
          [] i = 3 -> Ctl_StoreMsb(vout_raw)
          [] i = 4 -> Ctl_StoreLsb(vout_raw)
          [] i = 5 -> Ctl_StoreMsb(iout_raw)
          [] i = 6 -> Ctl_StoreLsb(iout_raw)
          [] OTHER -> 0]

NoRaw == [iac |-> 0, vout |-> 0, iout |-> 0]

\* the record kept of a call: the function, the caller, which pointer
\* arguments were NULL and which fields of the output struct were assigned
Call(fn, s, structIsNull, dataIsNull, written) ==
    [fn |-> fn, slot |-> s, structNull |-> structIsNull, dataNull |-> dataIsNull,
     written |-> written]

\* a guard that tests the data pointer only
NullArg_DataOnly(structIsNull, dataIsNull) == dataIsNull

\* if (x == NULL || data == NULL) return false;
NullArg(structIsNull, dataIsNull) == structIsNull \/ dataIsNull

\* bool CanBus_CreatePacket_Ctl(const CanPacket_Ctl_t *ctl, uint8_t data[8])
\* called by caller s with ctl = &c (or NULL) and data = its buffer (or NULL)
CreatePacket_Ctl_Body(s, c, ctlIsNull, dataIsNull) ==
    IF NullArg(ctlIsNull, dataIsNull)
    THEN /\ ret' = [ret EXCEPT ![s] = FALSE]
         /\ UNCHANGED <<can_data, raw>>
    ELSE \E iac_raw \in CurrentAC_ToRawCAN(c.iac_max_A),
            vout_raw \in Voltage_ToRawCan(c.vout_max_V),
            iout_raw \in CurrentOut_ToRawCan(c.iout_max_A) :
            /\ can_data' = [can_data EXCEPT ![s] = Ctl_Bytes(c, iac_raw, vout_raw, iout_raw)]
            /\ raw' = [raw EXCEPT ![s] = [iac |-> iac_raw, vout |-> vout_raw, iout |-> iout_raw]]
            /\ ret' = [ret EXCEPT ![s] = TRUE]

\* caller s passes its struct ctl[s]
CanBus_CreatePacket_Ctl(s, ctlIsNull, dataIsNull) ==
    /\ CreatePacket_Ctl_Body(s, ctl[s], ctlIsNull, dataIsNull)
    /\ op' = Call("CanBus_CreatePacket_Ctl", s, ctlIsNull, dataIsNull, {})
    /\ UNCHANGED <<ctl, faultVars, decVars, reqVars, randVars, thr>>

\* bool CanBus_CreatePacket_Ctl_Simple(can_enable, led3_enable, iac, vout, iout, data):
\* fills a local CanPacket_Ctl_t and passes its address on
CreatePacket_Ctl_Simple_Body(s, can_enable, led3_enable, iac_max_A, vout_max_V, iout_max_A, dataIsNull) ==
    CreatePacket_Ctl_Body(s, [can_enable |-> can_enable, led3_enable |-> led3_enable,
                              iac_max_A |-> iac_max_A, vout_max_V |-> vout_max_V,
                              iout_max_A |-> iout_max_A], FALSE, dataIsNull)

\* caller s passes the five values it holds in ctl[s]
CanBus_CreatePacket_Ctl_Simple(s, dataIsNull) ==
    /\ CreatePacket_Ctl_Simple_Body(s, ctl[s].can_enable, ctl[s].led3_enable, ctl[s].iac_max_A,
                                    ctl[s].vout_max_V, ctl[s].iout_max_A, dataIsNull)
    /\ op' = Call("CanBus_CreatePacket_Ctl_Simple", s, FALSE, dataIsNull, {})
    /\ UNCHANGED <<ctl, faultVars, decVars, reqVars, randVars, thr>>

\* what CanBus_Debug_PrintCtl reads back from a control buffer
Debug_PrintCtl(data) ==
    LET iac_raw  == U16(BitOr(Shl(data[1], 8), data[2]))
        vout_raw == U16(BitOr(Shl(data[3], 8), data[4]))
        iout_raw == U16(BitOr(Shl(data[5], 8), data[6]))
    IN  [can_enable |-> BitAnd(data[0], 128) # 0,
         led3       |-> BitAnd(data[0], 8) # 0,
         iac_raw    |-> iac_raw,
         iac        |-> F32OfRatio(iac_raw, 10),
         vout_raw   |-> vout_raw,
         vout       |-> F32OfRatio(vout_raw, 10),
         iout_raw   |-> iout_raw,
         iout       |-> F32OfRatio(iout_raw, 10)]

(***************************************************************************)
(* Level 2: fault frames (charger -> BMS), ID 0x61D / 0x61C.               *)
(***************************************************************************)
FAILURE_WARNING == 1
FAILURE_SOFT    == 10
FAILURE_HARD    == 11

FRAME_SINGLE == 1
FRAME_MULTI  == 2

FaultFields ==
    {"frame_type", "total_errors", "frame_number", "fault_code", "occurrence",
     "failure_level", "first_time_h", "last_time_h"}

\* a CanPacket_Fault_t whose bytes are all g, except failure_level = lv
FaultFilled(g, lv) ==
    [frame_type |-> g, total_errors |-> g, frame_number |-> g, fault_code |-> g,
     occurrence |-> g, failure_level |-> lv, first_time_h |-> g * 257,
     last_time_h |-> g * 257]

\* the struct variables when the call has no struct argument
NoFault == FaultFilled(0, 0)

\* the chain with 01 taken for Warning
Fault_FailureLevel_01Warning(level_bits, f0) ==
    IF level_bits = 1 THEN FAILURE_WARNING
    ELSE IF level_bits = 2 THEN FAILURE_SOFT
    ELSE IF level_bits = 3 THEN FAILURE_HARD
    ELSE f0

\* the if / else-if chain over level_bits: the value assigned to
\* fault->failure_level, or the value f0 the field already held when no
\* branch is taken
Fault_FailureLevel(level_bits, f0) ==
    IF level_bits = 0 THEN FAILURE_WARNING
    ELSE IF level_bits = 2 THEN FAILURE_SOFT
    ELSE IF level_bits = 3 THEN FAILURE_HARD
    ELSE f0

\* is fault->failure_level assigned at all
Fault_LevelAssigned(level_bits) == level_bits = 0 \/ level_bits = 2 \/ level_bits = 3

\* the struct *fault after CanBus_DecodePacket_Fault(data, fault) returned
\* true, f0 being the struct before the call
Fault_Decode(data, f0) ==
    LET level_bits == BitAnd(data[3], 3)
    IN  [frame_type    |-> BitAnd(Shr(data[0], 6), 3),
         total_errors  |-> U8(BitAnd(data[0], 63)),
         frame_number  |-> U8(BitAnd(Shr(data[1], 2), 63)),
         fault_code    |-> data[2],
         occurrence    |-> U8(BitAnd(Shr(data[3], 2), 63)),
         failure_level |-> Fault_FailureLevel(level_bits, f0.failure_level),
         first_time_h  |-> U16(BitOr(Shl(data[4], 8), data[5])),
         last_time_h   |-> U16(BitOr(Shl(data[6], 8), data[7]))]

\* the fields of *fault the call assigns
Fault_Written(data) ==
    IF Fault_LevelAssigned(BitAnd(data[3], 3)) THEN FaultFields
    ELSE FaultFields \ {"failure_level"}

\* bool CanBus_DecodePacket_Fault(const uint8_t data[8], CanPacket_Fault_t *fault)
\* on the frame fault_data and the caller's struct, which holds fault0
CanBus_DecodePacket_Fault(dataIsNull, faultIsNull) ==
    /\ IF faultIsNull \/ dataIsNull
       THEN /\ fret' = FALSE
            /\ fault' = fault0
            /\ op' = Call("CanBus_DecodePacket_Fault", 0, faultIsNull, dataIsNull, {})
       ELSE /\ fret' = TRUE
            /\ fault' = Fault_Decode(fault_data, fault0)
            /\ op' = Call("CanBus_DecodePacket_Fault", 0, FALSE, FALSE, Fault_Written(fault_data))
    /\ out' = <<>>
    /\ UNCHANGED <<fault_data, fault0, ctlVars, decVars, reqVars, randVars, thr>>

\* the for loop of CanBus_IsNoFaultDetected from index i on
RECURSIVE IsNoFaultDetected_Loop(_, _)
IsNoFaultDetected_Loop(data, i) ==
    IF i < 8
    THEN IF data[i] # 255 THEN FALSE ELSE IsNoFaultDetected_Loop(data, i + 1)
    ELSE TRUE

\* the loop started at index 0
IsNoFaultDetected_FromByte0(data) == IsNoFaultDetected_Loop(data, 0)

\* bool CanBus_IsNoFaultDetected(const uint8_t data[8])
CanBus_IsNoFaultDetected(data) == IsNoFaultDetected_Loop(data, 1)

\* a call of CanBus_IsNoFaultDetected on the frame fault_data
IsNoFaultDetected_Call ==
    /\ fret' = CanBus_IsNoFaultDetected(fault_data)
    /\ fault' = fault0
    /\ out' = <<>>
    /\ op' = Call("CanBus_IsNoFaultDetected", 0, FALSE, FALSE, {})
    /\ UNCHANGED <<fault_data, fault0, ctlVars, decVars, reqVars, randVars, thr>>

\* const char* CanBus_GetFaultName(uint8_t code)
CanBus_GetFaultName(code) ==
    CASE code = 160 -> "Bulk 1 Voltage"
      [] code = 161 -> "Bulk 2 Voltage"
      [] code = 162 -> "Bulk 3 Voltage"
      [] code = 163 -> "Bulk Error"
      [] code = 164 -> "CAN Registers"
      [] code = 165 -> "CAN Command"
      [] code = 166 -> "Cold Plate Temp LOW"
      [] code = 167 -> "Cold Plate Temp DERATING"
      [] code = 168 -> "Cold Plate Temp HIGH"
      [] code = 169 -> "Cold Plate Temp FAILED"
      [] code = 170 -> "Input Current MAX"
      [] code = 171 -> "HVIL Interlock Loop"
      [] code = 172 -> "Logic Temperature"
      [] code = 173 -> "Output Overvoltage"
      [] OTHER -> "Unknown Fault"

\* const char* CanBus_GetFailureLevelStr(FailureLevel_t level)
CanBus_GetFailureLevelStr(level) ==
    CASE level = FAILURE_WARNING -> "Warning"
      [] level = FAILURE_SOFT -> "Soft Failure"
      [] level = FAILURE_HARD -> "Hard Failure"
      [] OTHER -> "Unknown"

\* the lines CanBus_Debug_PrintFault prints after the hex dump; its local
\* struct is not initialised and holds g before the decode
Debug_PrintFault_Lines(d, g) ==
    IF CanBus_IsNoFaultDetected(d)
    THEN <<"*** NO FAULT DETECTED ***", "No faults stored in the charger.">>
    ELSE LET f == Fault_Decode(d, g)
         IN  << <<"Frame Type", IF f.frame_type = FRAME_SINGLE THEN "SINGLE" ELSE "MULTI">>,
                <<"Total Faults", f.total_errors>>,
                IF f.frame_type = FRAME_MULTI
                THEN <<"Frame", f.frame_number, f.total_errors>>
                ELSE <<"Frame", 1, 1>>,
                <<"Fault Code", f.fault_code, CanBus_GetFaultName(f.fault_code)>>,
                <<"Occurrence", f.occurrence>>,
                <<"Failure Level", CanBus_GetFailureLevelStr(f.failure_level)>>,
                <<"First Time", f.first_time_h>>,
                <<"Last Time", f.last_time_h>> >>

\* void CanBus_Debug_PrintFault(const uint8_t data[8], bool is_active)
\* on the frame fault_data; fault0 is what the stack slot of its local struct holds
CanBus_Debug_PrintFault(is_active) ==
    /\ out' = <<IF is_active THEN "ACTIVE" ELSE "PASSIVE">> \o Debug_PrintFault_Lines(fault_data, fault0)
    /\ fault' = IF CanBus_IsNoFaultDetected(fault_data) THEN fault0
                ELSE Fault_Decode(fault_data, fault0)
    /\ fret' = FALSE
    /\ op' = Call("CanBus_Debug_PrintFault", 0, FALSE, FALSE,
                  IF CanBus_IsNoFaultDetected(fault_data) THEN {} ELSE Fault_Written(fault_data))
    /\ UNCHANGED <<fault_data, fault0, ctlVars, decVars, reqVars, randVars, thr>>

(***************************************************************************)
(* Decoders of the frames received from the charger (levels 1 to 4).       *)
(* X_Raws is the uint16_t locals of decoder X, X_Decode the struct it      *)
(* leaves when it returns true.                                            *)
(***************************************************************************)
CAN_ID_STAT  == 1552
CAN_ID_ACT1  == 1553
CAN_ID_ACT2  == 1556
CAN_ID_TST1  == 1557
CAN_ID_TST2  == 1558
CAN_ID_REQ   == 1563
CAN_ID_FLTP  == 1564
CAN_ID_FLTA  == 1565
CAN_ID_SW    == 1566
CAN_ID_SN    == 1567
CAN_ID_ACT3  == 1810
CAN_ID_TEMP  == 1811
CAN_ID_ACT4  == 1812
CAN_ID_STST1 == 1813

\* the flag read one bit lower than the mask says
Flag_BitBelow(data, i, mask) == BitAnd(data[i], mask \div 2) # 0

\* (data[i] & mask) != 0
Flag(data, i, mask) == BitAnd(data[i], mask) # 0

\* little-endian reading of a 16-bit field
Read16_LittleEndian(data, i) == U16(BitOr(Shl(data[i + 1], 8), data[i]))

\* uint16_t x = (data[i] << 8) | data[i + 1]
Read16(data, i) == U16(BitOr(Shl(data[i], 8), data[i + 1]))

\* raw * 0.005188f without the offset
Temp_FromRaw_NoOffset(temp_raw) == F32MulInt(temp_raw, F32_0_005188)

\* (raw * 0.005188f) - 40.0f
Temp_FromRaw(temp_raw) == F32Sub40(F32MulInt(temp_raw, F32_0_005188))

NoRaws == [x \in {} |-> 0]

\* the status flags with lim_temp read one bit higher
Stat_Decode_LimTempBit4(data) ==
    [power_enable |-> Flag(data, 0, 128),
     error_latch  |-> Flag(data, 0, 64),
     warn_limit   |-> Flag(data, 0, 32),
     lim_temp     |-> Flag(data, 0, 16),
     warning_hv   |-> Flag(data, 0, 2),
     bulks        |-> Flag(data, 0, 1)]

Stat_Decode(data) ==
    [power_enable |-> Flag(data, 0, 128),
     error_latch  |-> Flag(data, 0, 64),
     warn_limit   |-> Flag(data, 0, 32),
     lim_temp     |-> Flag(data, 0, 8),
     warning_hv   |-> Flag(data, 0, 2),
     bulks        |-> Flag(data, 0, 1)]

Act1_Raws(data) ==
    [iac_raw  |-> Read16(data, 0),
     temp_raw |-> Read16(data, 2),
     vout_raw |-> Read16(data, 4),
     iout_raw |-> Read16(data, 6)]

Act1_Decode(data) ==
    LET r == Act1_Raws(data)
    IN  [iac_A  |-> F32OfRatio(r.iac_raw, 10),
         temp_C |-> Temp_FromRaw(r.temp_raw),
         vout_V |-> F32OfRatio(r.vout_raw, 10),
         iout_A |-> F32OfRatio(r.iout_raw, 10)]

Act2_Raws(data) ==
    [temp_raw  |-> Read16(data, 0),
     power_raw |-> Read16(data, 2),
     prox_raw  |-> Read16(data, 4),
     pilot_raw |-> Read16(data, 6)]

Act2_Decode(data) ==
    LET r == Act2_Raws(data)
    IN  [temp_loglv_C  |-> Temp_FromRaw(r.temp_raw),
         ac_power_kW   |-> F32MulInt(r.power_raw, F32_0_01),
         prox_limit_A  |-> F32OfRatio(r.prox_raw, 10),
         pilot_limit_A |-> F32OfRatio(r.pilot_raw, 10)]

Tst1_Decode(data) ==
    [ack           |-> Flag(data, 0, 128),
     pr_compl      |-> Flag(data, 0, 64),
     pwr_ok        |-> Flag(data, 0, 32),
     vout_ok       |-> Flag(data, 0, 16),
     neutral       |-> Flag(data, 0, 8),
     led3          |-> Flag(data, 0, 4),
     led618        |-> Flag(data, 0, 2),
     ovp           |-> Flag(data, 1, 128),
     conn_open     |-> Flag(data, 1, 64),
     ther_fail     |-> Flag(data, 1, 4),
     rx618_fail    |-> Flag(data, 1, 1),
     bulk1_fail    |-> Flag(data, 2, 128),
     bulk2_fail    |-> Flag(data, 2, 64),
     bulk3_fail    |-> Flag(data, 2, 32),
     pump_on       |-> Flag(data, 2, 16),
     fan_on        |-> Flag(data, 2, 8),
     hv_rx_fail    |-> Flag(data, 2, 4),
     cooling_fail  |-> Flag(data, 2, 2),
     rx619_fail    |-> Flag(data, 2, 1),
     neutro1       |-> Flag(data, 3, 128),
     neutro2       |-> Flag(data, 3, 64),
     three_phase   |-> Flag(data, 3, 32),
     iac_fail      |-> Flag(data, 3, 4),
     ignition      |-> Flag(data, 3, 2),
     lv_battery_np |-> Flag(data, 3, 1),
     prox_ok       |-> Flag(data, 4, 128),
     pilot_ok      |-> Flag(data, 4, 32),
     s2_ok         |-> Flag(data, 4, 8),
     cnt_hours     |-> Read16(data, 6)]

\* a text copy that stops at the first 0x00 byte, as strcpy would
Software_Decode_StopAtNul(data) ==
    [version |-> [i \in 0 .. 8 |->
        IF i < 8 /\ \A j \in 0 .. i : data[j] # 0 THEN data[i] ELSE 0]]

\* memcpy(sw->version, data, 8); sw->version[8] = '\0': the nine chars as bytes
Software_Decode(data) == [version |-> [i \in 0 .. 8 |-> IF i < 8 THEN data[i] ELSE 0]]

SerialNumber_Decode(data) == [serial |-> [i \in 0 .. 8 |-> IF i < 8 THEN data[i] ELSE 0]]

Act3_Raws(data) ==
    [fan_raw   |-> Read16(data, 0),
     iacm1_raw |-> Read16(data, 2),
     iacm2_raw |-> Read16(data, 4),
     iacm3_raw |-> Read16(data, 6)]

Act3_Decode(data) ==
    LET r == Act3_Raws(data)
    IN  [fan_voltage_V |-> F32MulInt(r.fan_raw, F32_0_1),
         iacm1_A       |-> F32MulInt(r.iacm1_raw, F32_0_1),
         iacm2_A       |-> F32MulInt(r.iacm2_raw, F32_0_1),
         iacm3_A       |-> F32MulInt(r.iacm3_raw, F32_0_1)]

Temp_Raws(data) ==
    [loghv_raw  |-> Read16(data, 0),
     power1_raw |-> Read16(data, 2),
     power2_raw |-> Read16(data, 4),
     power3_raw |-> Read16(data, 6)]

Temp_Decode(data) ==
    LET r == Temp_Raws(data)
    IN  [temp_loghv_C  |-> Temp_FromRaw(r.loghv_raw),
         temp_power1_C |-> Temp_FromRaw(r.power1_raw),
         temp_power2_C |-> Temp_FromRaw(r.power2_raw),
         temp_power3_C |-> Temp_FromRaw(r.power3_raw)]

Stst1_Decode(data) ==
    [pfc_enable    |-> Flag(data, 0, Shl(1, 2)),
     log_temp_high |-> Flag(data, 1, Shl(1, 5)),
     log_temp_low  |-> Flag(data, 1, Shl(1, 4)),
     uvlo_log      |-> Flag(data, 1, Shl(1, 3)),
     ther_low_fail |-> Flag(data, 1, Shl(1, 2)),
     rx618_fail    |-> Flag(data, 1, Shl(1, 0)),
     bulk1_fail    |-> Flag(data, 2, Shl(1, 7)),
     bulk2_fail    |-> Flag(data, 2, Shl(1, 6)),
     bulk3_fail    |-> Flag(data, 2, Shl(1, 5)),
     cooling_fail1 |-> Flag(data, 2, Shl(1, 4)),
     cooling_fail2 |-> Flag(data, 2, Shl(1, 3)),
     cooling_fail3 |-> Flag(data, 2, Shl(1, 2)),
     uvlo_log_lv   |-> Flag(data, 3, Shl(1, 3)),
     bat_over      |-> Flag(data, 3, Shl(1, 1)),
     bat_under     |-> Flag(data, 3, Shl(1, 0))]

Act4_Raws(data) == [temp_raw |-> Read16(data, 0)]

\* the output-current channels scaled by 0.1 as the other currents are
Act4_Decode_Scaled(data) ==
    [temp_logfan_C |-> Temp_FromRaw(Act4_Raws(data).temp_raw),
     iout1_raw     |-> Read16(data, 2) \div 10,
     iout2_raw     |-> Read16(data, 4) \div 10,
     iout3_raw     |-> Read16(data, 6) \div 10]

Act4_Decode(data) ==
    [temp_logfan_C |-> Temp_FromRaw(Act4_Raws(data).temp_raw),
     iout1_raw     |-> Read16(data, 2),
     iout2_raw     |-> Read16(data, 4),
     iout3_raw     |-> Read16(data, 6)]

BAUDRATE_500KBIT == 0
BAUDRATE_250KBIT == 1
BAUDRATE_125KBIT == 2
BAUDRATE_1MBIT   == 3

ID_STANDARD_11BIT == 0
ID_EXTENDED_29BIT == 1

IAC_NOT_CONTROLLED == 0
IAC_SAEJ1772       == 1
IAC_EN61851        == 2
IAC_ID618          == 3

RANGE_R4_EVO_USERS == 0
RANGE_R3           == 1
RANGE_R2           == 2
RANGE_R1           == 3

EVC_EVO11K == 0
EVC_EVO22K == 1

ID_SINGLE_CHARGER == 0
ID_RANGE_1_16     == 1

Tst2_Raws(data) ==
    [vout_raw |-> Read16(data, 3),
     iout_raw |-> Read16(data, 5)]

\* data[2] * 0.1f in place of data[2] * 0.2f
Tst2_IacmMax_Tenths(b) == F32MulInt(b, F32_0_1)

\* tst2->iacm_max_set_A = data[2] * 0.2f
Tst2_IacmMax(b) == F32MulInt(b, F32_0_2)

\* an ID setting cut to the one bit that tells the two declared symbols apart
Tst2_IdSetting_OneBit(b) == BitAnd(Shr(b, 2), 1)

\* (IDSettingType_t)((data[1] >> 2) & 0x0F)
Tst2_IdSetting(b) == BitAnd(Shr(b, 2), 15)

Tst2_Decode(data) ==
    LET r == Tst2_Raws(data)
    IN  [baudrate       |-> BitAnd(Shr(data[0], 6), 3),
         id_type        |-> BitAnd(Shr(data[0], 5), 1),
         iac_control    |-> BitAnd(Shr(data[0], 2), 3),
         range          |-> BitAnd(data[0], 3),
         three_phase    |-> Flag(data, 0, Shl(1, 0)),
         slave          |-> Flag(data, 1, Shl(1, 7)),
         evc_model      |-> BitAnd(Shr(data[1], 6), 1),
         id_setting     |-> Tst2_IdSetting(data[1]),
         parallel_ctrl  |-> Flag(data, 1, Shl(1, 1)),
         air_cooler     |-> Flag(data, 1, Shl(1, 0)),
         iacm_max_set_A |-> Tst2_IacmMax(data[2]),
         vout_max_set_V |-> F32MulInt(r.vout_raw, F32_0_1),
         iout_max_set_A |-> F32MulInt(r.iout_raw, F32_0_1),
         password       |-> data[7]]

\* the decoder a frame with identifier id is handed to
DecoderOf(id) ==
    CASE id = CAN_ID_STAT  -> "CanBus_DecodePacket_Stat"
      [] id = CAN_ID_ACT1  -> "CanBus_DecodePacket_Act1"
      [] id = CAN_ID_ACT2  -> "CanBus_DecodePacket_Act2"
      [] id = CAN_ID_TST1  -> "CanBus_DecodePacket_Tst1"
      [] id = CAN_ID_FLTA  -> "CanBus_DecodePacket_Fault"
      [] id = CAN_ID_FLTP  -> "CanBus_DecodePacket_Fault"
      [] id = CAN_ID_SW    -> "CanBus_DecodePacket_Software"
      [] id = CAN_ID_SN    -> "CanBus_DecodePacket_SerialNumber"
      [] id = CAN_ID_ACT3  -> "CanBus_DecodePacket_Act3"
      [] id = CAN_ID_TEMP  -> "CanBus_DecodePacket_Temp"
      [] id = CAN_ID_STST1 -> "CanBus_DecodePacket_Stst1"
      [] id = CAN_ID_ACT4  -> "CanBus_DecodePacket_Act4"
      [] id = CAN_ID_TST2  -> "CanBus_DecodePacket_Tst2"

\* the struct decoder fn leaves when it returns true; d0 is the struct before
Decode(fn, data, d0) ==
    CASE fn = "CanBus_DecodePacket_Stat"         -> Stat_Decode(data)
      [] fn = "CanBus_DecodePacket_Act1"         -> Act1_Decode(data)
      [] fn = "CanBus_DecodePacket_Act2"         -> Act2_Decode(data)
      [] fn = "CanBus_DecodePacket_Tst1"         -> Tst1_Decode(data)
      [] fn = "CanBus_DecodePacket_Fault"        -> Fault_Decode(data, d0)
      [] fn = "CanBus_DecodePacket_Software"     -> Software_Decode(data)
      [] fn = "CanBus_DecodePacket_SerialNumber" -> SerialNumber_Decode(data)
      [] fn = "CanBus_DecodePacket_Act3"         -> Act3_Decode(data)
      [] fn = "CanBus_DecodePacket_Temp"         -> Temp_Decode(data)
      [] fn = "CanBus_DecodePacket_Stst1"        -> Stst1_Decode(data)
      [] fn = "CanBus_DecodePacket_Act4"         -> Act4_Decode(data)
      [] fn = "CanBus_DecodePacket_Tst2"         -> Tst2_Decode(data)

\* the uint16_t locals decoder fn computes
Raws(fn, data) ==
    CASE fn = "CanBus_DecodePacket_Act1" -> Act1_Raws(data)
      [] fn = "CanBus_DecodePacket_Act2" -> Act2_Raws(data)
      [] fn = "CanBus_DecodePacket_Act3" -> Act3_Raws(data)
      [] fn = "CanBus_DecodePacket_Temp" -> Temp_Raws(data)
      [] fn = "CanBus_DecodePacket_Act4" -> Act4_Raws(data)
      [] fn = "CanBus_DecodePacket_Tst2" -> Tst2_Raws(data)
      [] OTHER -> NoRaws

\* the fields of the output struct decoder fn assigns
Written(fn, data) ==
    IF fn = "CanBus_DecodePacket_Fault" THEN Fault_Written(data)
    ELSE DOMAIN Decode(fn, data, NoFault)

\* a decoder that rejects a fault frame with the reserved level pattern 01
Decode_Return_RejectReserved(fn, data) ==
    ~(fn = "CanBus_DecodePacket_Fault" /\ BitAnd(data[3], 3) = 1)

\* the return value of a decoder whose two pointers are not NULL
Decode_Return(fn, data) == TRUE

\* bool CanBus_DecodePacket_X(const uint8_t data[8], CanPacket_X_t *x) called by
\* caller s on the received frame, with x = its struct (or NULL)
DecodePacket_Body(fn, s, structIsNull, dataIsNull) ==
    /\ DecoderOf(rx_id) = fn
    /\ IF NullArg(structIsNull, dataIsNull)
       THEN /\ dret' = [dret EXCEPT ![s] = FALSE]
            /\ dec' = [dec EXCEPT ![s] = dec0[s]]
            /\ dec_raw' = [dec_raw EXCEPT ![s] = NoRaws]
            /\ op' = Call(fn, s, structIsNull, dataIsNull, {})
       ELSE /\ dret' = [dret EXCEPT ![s] = Decode_Return(fn, rx_data)]
            /\ dec' = [dec EXCEPT ![s] = Decode(fn, rx_data, dec0[s])]
            /\ dec_raw' = [dec_raw EXCEPT ![s] = Raws(fn, rx_data)]
            /\ op' = Call(fn, s, structIsNull, dataIsNull, Written(fn, rx_data))
    /\ UNCHANGED <<rx_id, rx_data, dec0, ctlVars, faultVars, reqVars, randVars, thr>>

CanBus_DecodePacket_Stat(s, structIsNull, dataIsNull) ==
    DecodePacket_Body("CanBus_DecodePacket_Stat", s, structIsNull, dataIsNull)

CanBus_DecodePacket_Act1(s, structIsNull, dataIsNull) ==
    DecodePacket_Body("CanBus_DecodePacket_Act1", s, structIsNull, dataIsNull)

CanBus_DecodePacket_Act2(s, structIsNull, dataIsNull) ==
    DecodePacket_Body("CanBus_DecodePacket_Act2", s, structIsNull, dataIsNull)

CanBus_DecodePacket_Tst1(s, structIsNull, dataIsNull) ==
    DecodePacket_Body("CanBus_DecodePacket_Tst1", s, structIsNull, dataIsNull)

\* CanBus_DecodePacket_Fault on the received frame and the struct of caller s
CanBus_DecodePacket_Fault_Rx(s, structIsNull, dataIsNull) ==
    DecodePacket_Body("CanBus_DecodePacket_Fault", s, structIsNull, dataIsNull)

CanBus_DecodePacket_Software(s, structIsNull, dataIsNull) ==
    DecodePacket_Body("CanBus_DecodePacket_Software", s, structIsNull, dataIsNull)

CanBus_DecodePacket_SerialNumber(s, structIsNull, dataIsNull) ==
    DecodePacket_Body("CanBus_DecodePacket_SerialNumber", s, structIsNull, dataIsNull)

CanBus_DecodePacket_Act3(s, structIsNull, dataIsNull) ==
    DecodePacket_Body("CanBus_DecodePacket_Act3", s, structIsNull, dataIsNull)

CanBus_DecodePacket_Temp(s, structIsNull, dataIsNull) ==
    DecodePacket_Body("CanBus_DecodePacket_Temp", s, structIsNull, dataIsNull)

CanBus_DecodePacket_Stst1(s, structIsNull, dataIsNull) ==
    DecodePacket_Body("CanBus_DecodePacket_Stst1", s, structIsNull, dataIsNull)

CanBus_DecodePacket_Act4(s, structIsNull, dataIsNull) ==
    DecodePacket_Body("CanBus_DecodePacket_Act4", s, structIsNull, dataIsNull)

CanBus_DecodePacket_Tst2(s, structIsNull, dataIsNull) ==
    DecodePacket_Body("CanBus_DecodePacket_Tst2", s, structIsNull, dataIsNull)

(***************************************************************************)
(* Level 2: diagnostic request (BMS -> charger), ID 0x61B.                 *)
(***************************************************************************)
REQ_FAULT_INACTIVE == 28
REQ_FAULT_ACTIVE   == 29
REQ_SOFTWARE       == 30
REQ_SERIAL_NUMBER  == 31

\* the enable flag in bit 0 in place of bit 7
Req_EnableByte_Bit0(enable) == IF enable THEN 1 ELSE 0

\* data[0] = enable ? 0x80 : 0x00
Req_EnableByte(enable) == IF enable THEN 128 ELSE 0

\* a request encoder that writes only the four bytes of the request
Req_Bytes_KeepTail(enable, request_type, data0) ==
    [i \in 0 .. 7 |->
        CASE i = 0 -> Req_EnableByte(enable)
          [] i = 1 -> 0
          [] i = 2 -> 6
          [] i = 3 -> U8(request_type)
          [] OTHER -> data0[i]]

\* the buffer after memset(data, 0, 8) and the four stores of
\* CanBus_CreatePacket_Req
Req_Bytes(enable, request_type, data0) ==
    [i \in 0 .. 7 |->
        CASE i = 0 -> Req_EnableByte(enable)
          [] i = 1 -> 0
          [] i = 2 -> 6
          [] i = 3 -> U8(request_type)
          [] OTHER -> 0]

\* bool CanBus_CreatePacket_Req(bool enable, RequestType_t request_type, uint8_t data[8])
CreatePacket_Req_Body(fn, enable, request_type, dataIsNull) ==
    /\ IF dataIsNull
       THEN /\ req_ret' = FALSE
            /\ req_data' = req_data0
       ELSE /\ req_ret' = TRUE
            /\ req_data' = Req_Bytes(enable, request_type, req_data0)
    /\ op' = Call(fn, 0, FALSE, dataIsNull, {})
    /\ UNCHANGED <<req, req_data0, ctlVars, faultVars, decVars, randVars, thr>>

\* called with the arguments the caller holds in req
CanBus_CreatePacket_Req(dataIsNull) ==
    CreatePacket_Req_Body("CanBus_CreatePacket_Req", req.enable, req.request_type, dataIsNull)

CanBus_Request_FaultActive(dataIsNull) ==
    CreatePacket_Req_Body("CanBus_Request_FaultActive", TRUE, REQ_FAULT_ACTIVE, dataIsNull)

CanBus_Request_FaultInactive(dataIsNull) ==
    CreatePacket_Req_Body("CanBus_Request_FaultInactive", TRUE, REQ_FAULT_INACTIVE, dataIsNull)

CanBus_Request_Software(dataIsNull) ==
    CreatePacket_Req_Body("CanBus_Request_Software", TRUE, REQ_SOFTWARE, dataIsNull)

CanBus_Request_SerialNumber(dataIsNull) ==
    CreatePacket_Req_Body("CanBus_Request_SerialNumber", TRUE, REQ_SERIAL_NUMBER, dataIsNull)

(***************************************************************************)
(* Arguments the calls are made with.                                      *)
(***************************************************************************)
Slots == {1, 2}

\* an 8-byte buffer filled with b, as a caller's buffer is before first use
Filled(b) == [i \in 0 .. 7 |-> b]

GridH == 0 .. GridMax

\* setpoints in hundredths of a unit: below, inside, at and above each range
IacH  == GridH \cup {-100, 1600, 49995, 50000, 50001, 60000}
VoutH == GridH \cup {-100, 36000, 50000, 655350, 655360, 700000, 1000000, 2000000}
IoutH == GridH \cup {-100, 1700, 149995, 150000, 160000}

CtlOf(en, led, iacH, voutH, ioutH) ==
    [can_enable |-> en, led3_enable |-> led,
     iac_max_A |-> F32FromHundredths(iacH),
     vout_max_V |-> F32FromHundredths(voutH),
     iout_max_A |-> F32FromHundredths(ioutH)]

CtlInputs ==
    {CtlOf(en, led, a, v, i) : en \in BOOLEAN, led \in BOOLEAN,
                               a \in IacH, v \in VoutH, i \in IoutH}

\* the smaller set used when two callers encode side by side
PairIacH  == {-100, 0, 50000, 60000}
PairVoutH == {-100, 0, 600000, 700000, 1000000, 1100000}
PairIoutH == {0, 150000, 160000}

PairCtlInputs ==
    {CtlOf(en, led, a, v, i) : en \in BOOLEAN, led \in {FALSE},
                               a \in PairIacH, v \in PairVoutH, i \in PairIoutH}

\* fault frames: every combination of the byte values below
Byte3Span == 3

FaultByteValues(i) ==
    CASE i = 0 -> {0, 65, 133, 255}
      [] i = 1 -> {1, 4, 255}
      [] i = 2 -> {168, 255}
      [] i = 3 -> (20 .. 20 + Byte3Span) \cup {255}
      [] i = 4 -> {0, 255}
      [] i = 5 -> {30, 255}
      [] i = 6 -> {0, 255}
      [] OTHER -> {120, 254, 255}

FaultFrames ==
    {[i \in 0 .. 7 |-> t[i + 1]] :
        t \in FaultByteValues(0) \X FaultByteValues(1) \X FaultByteValues(2) \X FaultByteValues(3)
            \X FaultByteValues(4) \X FaultByteValues(5) \X FaultByteValues(6) \X FaultByteValues(7)}

\* what an output struct may hold before the call
\* the identifiers of the frames the charger sends
RxIds ==
    {CAN_ID_STAT, CAN_ID_ACT1, CAN_ID_ACT2, CAN_ID_TST1, CAN_ID_FLTA, CAN_ID_FLTP, CAN_ID_SW,
     CAN_ID_SN, CAN_ID_ACT3, CAN_ID_TEMP, CAN_ID_STST1, CAN_ID_ACT4, CAN_ID_TST2}

\* the frames of the examples in the source
ExampleAct1Frame == <<0, 160, 48, 247, 14, 16, 0, 170>>
ExampleTst2Frame == <<4, 0, 160, 15, 160, 3, 232, 165>>
ExampleTst2ThreePhaseFrame == <<8, 1, 200, 15, 160, 5, 220, 165>>
ExampleFaultFrame == <<65, 1, 168, 23, 0, 30, 0, 120>>

\* an 8-byte buffer from a tuple of eight bytes
Frame(t) == [i \in 0 .. 7 |-> t[i + 1]]

\* background b with byte i set to v
OneByte(b, i, v) == [j \in 0 .. 7 |-> IF j = i THEN v ELSE b]

\* frame d with bit b of byte i inverted
FlipBit(d, i, b) ==
    [d EXCEPT ![i] = IF BitAnd(d[i], 2 ^ b) # 0 THEN d[i] - 2 ^ b ELSE d[i] + 2 ^ b]

\* every value of every byte over a zero background, every single cleared
\* bit over an all-ones background, and the example frames
RxFrames ==
    {OneByte(0, i, v) : i \in 0 .. 7, v \in Byte}
    \cup {OneByte(255, i, 255 - 2 ^ b) : i \in 0 .. 7, b \in 0 .. 7}
    \cup {Filled(255), Frame(ExampleAct1Frame), Frame(ExampleTst2Frame),
          Frame(ExampleTst2ThreePhaseFrame), Frame(ExampleFaultFrame)}

PairRxFrames ==
    {OneByte(0, 3, v) : v \in 0 .. Byte3Span}
    \cup {Filled(0), Filled(255), Frame(ExampleAct1Frame), Frame(ExampleTst2Frame),
          Frame(ExampleFaultFrame)}

\* what never-assigned memory of an output struct may hold
GarbageValues == {FAILURE_HARD, 204}

ReqTypes == {REQ_FAULT_INACTIVE, REQ_FAULT_ACTIVE, REQ_SOFTWARE, REQ_SERIAL_NUMBER}

ReqBuffers == {Filled(0), Filled(255), Filled(170), Frame(ExampleFaultFrame)}

PriorLevels == {0, FAILURE_WARNING, FAILURE_SOFT, FAILURE_HARD}

PriorFaults == {FaultFilled(0, lv) : lv \in PriorLevels} \cup {FaultFilled(204, 204)}

(***************************************************************************)
(* Specifications.  The functions are pure: Init draws the arguments the   *)
(* callers hold, the actions are the calls.                                *)
(***************************************************************************)
NoCtl == CtlOf(FALSE, FALSE, 0, 0, 0)

NoCall == Call("none", 0, FALSE, FALSE, {})

InitBuffers == {Filled(0), Filled(255)}

InitFaultIdle ==
    /\ fault_data = Filled(0)
    /\ fault = NoFault
    /\ fault0 = NoFault
    /\ fret = FALSE
    /\ out = <<>>

\* the struct of decoder fn filled with the garbage value g, as memory that
\* was never assigned may be
Garbage(fn, g) == [f \in DOMAIN Decode(fn, Filled(0), NoFault) |-> g]

InitCtlIdle ==
    /\ ctl = [s \in Slots |-> NoCtl]
    /\ can_data = [s \in Slots |-> Filled(0)]
    /\ raw = [s \in Slots |-> NoRaw]
    /\ ret = [s \in Slots |-> FALSE]

InitDecIdle ==
    /\ rx_id = CAN_ID_STAT
    /\ rx_data = Filled(0)
    /\ dec0 = [s \in Slots |-> Garbage(DecoderOf(CAN_ID_STAT), 0)]
    /\ dec = dec0
    /\ dec_raw = [s \in Slots |-> NoRaws]
    /\ dret = [s \in Slots |-> FALSE]

InitReqIdle ==
    /\ req = [enable |-> FALSE, request_type |-> REQ_FAULT_INACTIVE]
    /\ req_data0 = Filled(0)
    /\ req_data = req_data0
    /\ req_ret = FALSE

(***************************************************************************)
(* CanBus_GenerateRandomPacket, statement by statement.  Its static flag   *)
(* and the generator of the C library are shared by every caller, so two   *)
(* calls in progress at once are modelled by two threads whose statements  *)
(* interleave.                                                             *)
(***************************************************************************)
\* calls each thread makes
MaxCalls == 2

\* the values time(NULL) may give
Times == {1000, 1001}

\* the generator: srand stores the seed, rand advances the state and returns it
RandNext(x) == (x * 75 + 74) % 65537

NoGen == [pc |-> "idle", data |-> Filled(0), calls |-> 0, returned |-> 0]

InitRandIdle ==
    /\ seeded = FALSE
    /\ srand_calls = 0
    /\ rand_state = 1
    /\ gen = [t \in Slots |-> NoGen]

\* void CanBus_GenerateRandomPacket(uint8_t data[8]) entered by thread t
Gen_Call(t) ==
    /\ gen[t].pc = "idle"
    /\ gen[t].calls < MaxCalls
    /\ gen' = [gen EXCEPT ![t].pc = "test", ![t].calls = @ + 1]
    /\ UNCHANGED <<seeded, srand_calls, rand_state, codecVars, thr>>

\* if (!seeded)
Gen_Test(t) ==
    /\ gen[t].pc = "test"
    /\ gen' = [gen EXCEPT ![t].pc = IF ~seeded THEN "srand" ELSE "loop"]
    /\ UNCHANGED <<seeded, srand_calls, rand_state, codecVars, thr>>

\* srand((unsigned int)time(NULL));
Gen_Srand(t) ==
    /\ gen[t].pc = "srand"
    /\ \E now \in Times : rand_state' = now
    /\ srand_calls' = srand_calls + 1
    /\ gen' = [gen EXCEPT ![t].pc = "set"]
    /\ UNCHANGED <<seeded, codecVars, thr>>

\* seeded = true;
Gen_SetSeeded(t) ==
    /\ gen[t].pc = "set"
    /\ seeded' = TRUE
    /\ gen' = [gen EXCEPT ![t].pc = "loop"]
    /\ UNCHANGED <<srand_calls, rand_state, codecVars, thr>>

\* the state of the generator after n calls of rand
RECURSIVE RandIter(_, _)
RandIter(x, n) == IF n = 0 THEN x ELSE RandIter(RandNext(x), n - 1)

\* for (int i = 0; i < 8; i++) data[i] = (uint8_t)(rand() & 0xFF);
\* the eight iterations as one step, then the return
Gen_Loop(t) ==
    /\ gen[t].pc = "loop"
    /\ rand_state' = RandIter(rand_state, 8)
    /\ gen' = [gen EXCEPT ![t].data = [i \in 0 .. 7 |-> BitAnd(RandIter(rand_state, i + 1), 255)],
                          ![t].pc = "idle",
                          ![t].returned = @ + 1]
    /\ UNCHANGED <<seeded, srand_calls, codecVars, thr>>

(***************************************************************************)
(* Codec calls statement by statement.  A thread is one call in progress:  *)
(* its function, the statement it is at, its arguments, its buffer as it   *)
(* was and as it is, its locals and its output struct.  The functions have *)
(* no static or global variable: a statement reads and writes the thread's *)
(* own locals and the objects its pointer arguments point at.              *)
(***************************************************************************)
\* every pointer argument pointing at one shared object
OwnObjects_Shared(t) == 1

\* the thread whose buffer and struct the pointer arguments of thread t point at
OwnObjects(t) == t

\* bool CanBus_CreatePacket_Ctl(const CanPacket_Ctl_t *ctl, uint8_t data[8]):
\* the buffer and the locals after the statement at pc
Ctl_Statement(pc, c, data, local) ==
    CASE pc = 1  -> {[data |-> Filled(0), local |-> local]}
      [] pc = 2  -> {[data |-> [data EXCEPT ![0] = 0], local |-> local]}
      [] pc = 3  -> {[data |-> [data EXCEPT ![0] = IF c.can_enable THEN BitOr(@, 128) ELSE @],
                      local |-> local]}
      [] pc = 4  -> {[data |-> [data EXCEPT ![0] = IF c.led3_enable THEN BitOr(@, 8) ELSE @],
                      local |-> local]}
      [] pc = 5  -> {[data |-> data, local |-> [local EXCEPT !.iac = r]] :
                        r \in CurrentAC_ToRawCAN(c.iac_max_A)}
      [] pc = 6  -> {[data |-> [data EXCEPT ![1] = U8(BitAnd(Shr(local.iac, 8), 255))],
                      local |-> local]}
      [] pc = 7  -> {[data |-> [data EXCEPT ![2] = U8(BitAnd(local.iac, 255))], local |-> local]}
      [] pc = 8  -> {[data |-> data, local |-> [local EXCEPT !.vout = r]] :
                        r \in Voltage_ToRawCan(c.vout_max_V)}
      [] pc = 9  -> {[data |-> [data EXCEPT ![3] = U8(BitAnd(Shr(local.vout, 8), 255))],
                      local |-> local]}
      [] pc = 10 -> {[data |-> [data EXCEPT ![4] = U8(BitAnd(local.vout, 255))], local |-> local]}
      [] pc = 11 -> {[data |-> data, local |-> [local EXCEPT !.iout = r]] :
                        r \in CurrentOut_ToRawCan(c.iout_max_A)}
      [] pc = 12 -> {[data |-> [data EXCEPT ![5] = U8(BitAnd(Shr(local.iout, 8), 255))],
                      local |-> local]}
      [] pc = 13 -> {[data |-> [data EXCEPT ![6] = U8(BitAnd(local.iout, 255))], local |-> local]}
      [] pc = 14 -> {[data |-> [data EXCEPT ![7] = 0], local |-> local]}

\* the statement of the return
Ctl_Return == 15

\* bool CanBus_CreatePacket_Req(bool enable, RequestType_t request_type, uint8_t data[8]):
\* the buffer after the statement at pc
Req_Statement(pc, a, data) ==
    CASE pc = 1 -> Filled(0)
      [] pc = 2 -> [data EXCEPT ![0] = IF a.enable THEN 128 ELSE 0]
      [] pc = 3 -> [data EXCEPT ![1] = 0]
      [] pc = 4 -> [data EXCEPT ![2] = 6]
      [] pc = 5 -> [data EXCEPT ![3] = U8(a.request_type)]

Req_Return == 6

\* bool CanBus_DecodePacket_Temp(const uint8_t data[8], CanPacket_Temp_t *temp):
\* the locals and the struct after the statement at pc
Temp_Statement(pc, data, local, temp) ==
    CASE pc = 1 -> [local |-> [local EXCEPT !.loghv_raw = U16(BitOr(Shl(data[0], 8), data[1]))],
                    out |-> temp]
      [] pc = 2 -> [local |-> local,
                    out |-> [temp EXCEPT !.temp_loghv_C = Temp_FromRaw(local.loghv_raw)]]
      [] pc = 3 -> [local |-> [local EXCEPT !.power1_raw = U16(BitOr(Shl(data[2], 8), data[3]))],
                    out |-> temp]
      [] pc = 4 -> [local |-> local,
                    out |-> [temp EXCEPT !.temp_power1_C = Temp_FromRaw(local.power1_raw)]]
      [] pc = 5 -> [local |-> [local EXCEPT !.power2_raw = U16(BitOr(Shl(data[4], 8), data[5]))],
                    out |-> temp]
      [] pc = 6 -> [local |-> local,
                    out |-> [temp EXCEPT !.temp_power2_C = Temp_FromRaw(local.power2_raw)]]
      [] pc = 7 -> [local |-> [local EXCEPT !.power3_raw = U16(BitOr(Shl(data[6], 8), data[7]))],
                    out |-> temp]
      [] pc = 8 -> [local |-> local,
                    out |-> [temp EXCEPT !.temp_power3_C = Temp_FromRaw(local.power3_raw)]]

Temp_Return == 9

\* "return true;" of thread t
Thr_Return(t) == thr' = [thr EXCEPT ![t].returned = TRUE, ![t].ret = TRUE]

\* one statement of CanBus_CreatePacket_Ctl in thread t (pc 0 is the NULL test)
CanBus_CreatePacket_Ctl_Step(t) ==
    /\ thr[t].fn = "CanBus_CreatePacket_Ctl"
    /\ ~thr[t].returned
    /\ LET o == OwnObjects(t)
       IN  IF thr[t].pc = 0 THEN thr' = [thr EXCEPT ![t].pc = 1]
           ELSE IF thr[t].pc = Ctl_Return THEN Thr_Return(t)
           ELSE \E n \in Ctl_Statement(thr[t].pc, thr[t].arg, thr[o].data, thr[t].local) :
                   thr' = [thr EXCEPT ![o].data = n.data, ![t].local = n.local, ![t].pc = @ + 1]
    /\ UNCHANGED <<codecVars, randVars>>

\* one statement of CanBus_CreatePacket_Req in thread t
CanBus_CreatePacket_Req_Step(t) ==
    /\ thr[t].fn = "CanBus_CreatePacket_Req"
    /\ ~thr[t].returned
    /\ LET o == OwnObjects(t)
       IN  IF thr[t].pc = 0 THEN thr' = [thr EXCEPT ![t].pc = 1]
           ELSE IF thr[t].pc = Req_Return THEN Thr_Return(t)
           ELSE thr' = [thr EXCEPT ![o].data = Req_Statement(thr[t].pc, thr[t].arg, thr[o].data),
                                   ![t].pc = @ + 1]
    /\ UNCHANGED <<codecVars, randVars>>

\* one statement of CanBus_DecodePacket_Temp in thread t
CanBus_DecodePacket_Temp_Step(t) ==
    /\ thr[t].fn = "CanBus_DecodePacket_Temp"
    /\ ~thr[t].returned
    /\ LET o == OwnObjects(t)
           n == Temp_Statement(thr[t].pc, thr[o].data, thr[t].local, thr[o].out)
       IN  IF thr[t].pc = 0 THEN thr' = [thr EXCEPT ![t].pc = 1]
           ELSE IF thr[t].pc = Temp_Return THEN Thr_Return(t)
           ELSE thr' = [thr EXCEPT ![o].out = n.out, ![t].local = n.local, ![t].pc = @ + 1]
    /\ UNCHANGED <<codecVars, randVars>>

\* a call about to start: function fn, arguments a, buffer d, locals l, struct o
Thread(fn, a, d, l, o) ==
    [fn |-> fn, pc |-> 0, returned |-> FALSE, ret |-> FALSE,
     arg |-> a, data0 |-> d, data |-> d, local |-> l, out |-> o]

NoArg == [none |-> 0]

ThrInputs ==
    {Thread("CanBus_CreatePacket_Ctl", c, Filled(255), NoRaw, NoArg) :
        c \in {CtlOf(TRUE, FALSE, 1600, 36000, 1700), CtlOf(FALSE, TRUE, 60000, -100, 160000)}}
    \cup {Thread("CanBus_CreatePacket_Req", [enable |-> TRUE, request_type |-> REQ_SOFTWARE],
                 Filled(255), NoRaw, NoArg)}
    \cup {Thread("CanBus_DecodePacket_Temp", NoArg, d,
                 [loghv_raw |-> 0, power1_raw |-> 0, power2_raw |-> 0, power3_raw |-> 0],
                 [f \in DOMAIN Temp_Decode(d) |-> F32FromInt(204)]) :
             d \in {Frame(ExampleAct1Frame), Filled(255)}}

InitThrIdle == thr = [t \in Slots |-> Thread("none", NoArg, Filled(0), NoRaw, NoArg)]

InitStepIdle == InitRandIdle /\ InitThrIdle

InitCodecIdle ==
    /\ op = Call("none", 0, FALSE, FALSE, {})
    /\ InitCtlIdle
    /\ InitFaultIdle
    /\ InitDecIdle
    /\ InitReqIdle

\* two threads calling CanBus_GenerateRandomPacket, each on its own buffer
InitRand ==
    /\ InitCodecIdle
    /\ InitRandIdle
    /\ InitThrIdle

NextRand ==
    \E t \in Slots :
        \/ Gen_Call(t)
        \/ Gen_Test(t)
        \/ Gen_Srand(t)
        \/ Gen_SetSeeded(t)
        \/ Gen_Loop(t)

SpecRand == InitRand /\ [][NextRand]_vars

\* two codec calls in progress at once, each on its own buffer and struct
InitConc ==
    /\ InitCodecIdle
    /\ InitRandIdle
    /\ thr \in [Slots -> ThrInputs]

NextConc ==
    \E t \in Slots :
        \/ CanBus_CreatePacket_Ctl_Step(t)
        \/ CanBus_CreatePacket_Req_Step(t)
        \/ CanBus_DecodePacket_Temp_Step(t)

SpecConc == InitConc /\ [][NextConc]_vars

\* one caller encoding control packets
Init ==
    /\ op = NoCall
    /\ InitStepIdle
    /\ \E c \in CtlInputs : ctl = [s \in Slots |-> IF s = 1 THEN c ELSE NoCtl]
    /\ \E b \in InitBuffers : can_data = [s \in Slots |-> b]
    /\ raw = [s \in Slots |-> NoRaw]
    /\ ret = [s \in Slots |-> FALSE]
    /\ InitFaultIdle
    /\ InitDecIdle
    /\ InitReqIdle

Next ==
    \/ \E ctlIsNull \in BOOLEAN, dataIsNull \in BOOLEAN :
          CanBus_CreatePacket_Ctl(1, ctlIsNull, dataIsNull)
    \/ \E dataIsNull \in BOOLEAN : CanBus_CreatePacket_Ctl_Simple(1, dataIsNull)

Spec == Init /\ [][Next]_vars

\* two callers encoding control packets, each into its own buffer
InitPair ==
    /\ op = NoCall
    /\ InitStepIdle
    /\ ctl \in [Slots -> PairCtlInputs]
    /\ can_data = [s \in Slots |-> Filled(0)]
    /\ raw = [s \in Slots |-> NoRaw]
    /\ ret = [s \in Slots |-> FALSE]
    /\ InitFaultIdle
    /\ InitDecIdle
    /\ InitReqIdle

NextPair == \E s \in Slots : CanBus_CreatePacket_Ctl(s, FALSE, FALSE)

SpecPair == InitPair /\ [][NextPair]_vars

\* the level-2 functions applied to fault frames
InitFault ==
    /\ op = NoCall
    /\ InitStepIdle
    /\ ctl = [s \in Slots |-> NoCtl]
    /\ can_data = [s \in Slots |-> Filled(0)]
    /\ raw = [s \in Slots |-> NoRaw]
    /\ ret = [s \in Slots |-> FALSE]
    /\ fault_data \in FaultFrames
    /\ fault0 \in PriorFaults
    /\ fault = fault0
    /\ fret = FALSE
    /\ out = <<>>
    /\ InitDecIdle
    /\ InitReqIdle

NextFault ==
    \/ \E dataIsNull \in BOOLEAN, faultIsNull \in BOOLEAN :
          CanBus_DecodePacket_Fault(dataIsNull, faultIsNull)
    \/ IsNoFaultDetected_Call
    \/ \E is_active \in BOOLEAN : CanBus_Debug_PrintFault(is_active)

SpecFault == InitFault /\ [][NextFault]_vars

\* the decoder of the received frame, called by caller s
DecodeRx(s, structIsNull, dataIsNull) ==
    \/ CanBus_DecodePacket_Stat(s, structIsNull, dataIsNull)
    \/ CanBus_DecodePacket_Act1(s, structIsNull, dataIsNull)
    \/ CanBus_DecodePacket_Act2(s, structIsNull, dataIsNull)
    \/ CanBus_DecodePacket_Tst1(s, structIsNull, dataIsNull)
    \/ CanBus_DecodePacket_Fault_Rx(s, structIsNull, dataIsNull)
    \/ CanBus_DecodePacket_Software(s, structIsNull, dataIsNull)
    \/ CanBus_DecodePacket_SerialNumber(s, structIsNull, dataIsNull)
    \/ CanBus_DecodePacket_Act3(s, structIsNull, dataIsNull)
    \/ CanBus_DecodePacket_Temp(s, structIsNull, dataIsNull)
    \/ CanBus_DecodePacket_Stst1(s, structIsNull, dataIsNull)
    \/ CanBus_DecodePacket_Act4(s, structIsNull, dataIsNull)
    \/ CanBus_DecodePacket_Tst2(s, structIsNull, dataIsNull)

\* one caller decoding a received frame
InitDecode ==
    /\ op = NoCall
    /\ InitStepIdle
    /\ InitCtlIdle
    /\ InitFaultIdle
    /\ InitReqIdle
    /\ rx_id \in RxIds
    /\ rx_data \in RxFrames
    /\ dec0 = [s \in Slots |-> Garbage(DecoderOf(rx_id), 204)]
    /\ dec = dec0
    /\ dec_raw = [s \in Slots |-> NoRaws]
    /\ dret = [s \in Slots |-> FALSE]

NextDecode ==
    \E structIsNull \in BOOLEAN, dataIsNull \in BOOLEAN : DecodeRx(1, structIsNull, dataIsNull)

SpecDecode == InitDecode /\ [][NextDecode]_vars

\* two callers decoding the same received frame, each into its own struct
InitDecodePair ==
    /\ op = NoCall
    /\ InitStepIdle
    /\ InitCtlIdle
    /\ InitFaultIdle
    /\ InitReqIdle
    /\ rx_id \in RxIds
    /\ rx_data \in PairRxFrames
    /\ \E g \in [Slots -> GarbageValues] :
          dec0 = [s \in Slots |-> Garbage(DecoderOf(rx_id), g[s])]
    /\ dec = dec0
    /\ dec_raw = [s \in Slots |-> NoRaws]
    /\ dret = [s \in Slots |-> FALSE]

NextDecodePair == \E s \in Slots : DecodeRx(s, FALSE, FALSE)

SpecDecodePair == InitDecodePair /\ [][NextDecodePair]_vars

\* the request encoder and its wrappers
InitReq ==
    /\ op = NoCall
    /\ InitStepIdle
    /\ InitCtlIdle
    /\ InitFaultIdle
    /\ InitDecIdle
    /\ req \in [enable : BOOLEAN, request_type : ReqTypes]
    /\ req_data0 \in ReqBuffers
    /\ req_data = req_data0
    /\ req_ret = FALSE

NextReq ==
    \/ \E dataIsNull \in BOOLEAN : CanBus_CreatePacket_Req(dataIsNull)
    \/ \E dataIsNull \in BOOLEAN : CanBus_Request_FaultActive(dataIsNull)
    \/ \E dataIsNull \in BOOLEAN : CanBus_Request_FaultInactive(dataIsNull)
    \/ \E dataIsNull \in BOOLEAN : CanBus_Request_Software(dataIsNull)
    \/ \E dataIsNull \in BOOLEAN : CanBus_Request_SerialNumber(dataIsNull)

SpecReq == InitReq /\ [][NextReq]_vars

(***************************************************************************)
(* Properties of the control encode (level 1).                             *)
(***************************************************************************)
\* every encoder and decoder called with and without NULL arguments
NullCtlInputs == {CtlOf(TRUE, FALSE, 1600, 36000, 1700), CtlOf(FALSE, TRUE, 60000, -100, 160000)}

InitNull ==
    /\ op = NoCall
    /\ InitStepIdle
    /\ \E c \in NullCtlInputs : ctl = [s \in Slots |-> IF s = 1 THEN c ELSE NoCtl]
    /\ can_data = [s \in Slots |-> Filled(255)]
    /\ raw = [s \in Slots |-> NoRaw]
    /\ ret = [s \in Slots |-> FALSE]
    /\ InitFaultIdle
    /\ rx_id \in RxIds
    /\ rx_data \in {Filled(255), Frame(ExampleAct1Frame)}
    /\ dec0 = [s \in Slots |-> Garbage(DecoderOf(rx_id), 204)]
    /\ dec = dec0
    /\ dec_raw = [s \in Slots |-> NoRaws]
    /\ dret = [s \in Slots |-> FALSE]
    /\ req = [enable |-> TRUE, request_type |-> REQ_SOFTWARE]
    /\ req_data0 = Filled(255)
    /\ req_data = req_data0
    /\ req_ret = FALSE

NextNull ==
    \/ \E ctlIsNull \in BOOLEAN, dataIsNull \in BOOLEAN :
          CanBus_CreatePacket_Ctl(1, ctlIsNull, dataIsNull)
    \/ \E structIsNull \in BOOLEAN, dataIsNull \in BOOLEAN :
          DecodeRx(1, structIsNull, dataIsNull)
    \/ \E dataIsNull \in BOOLEAN : CanBus_CreatePacket_Req(dataIsNull)

SpecNull == InitNull /\ [][NextNull]_vars

\* the hundredth of a unit nearest to a float (|f| < 2^24 / 100)
F32ToHundredths(f) ==
    IF f.m < 0 THEN -RoundNearestEven(100 * (-(f.m)), 2 ^ f.k)
    ELSE RoundNearestEven(100 * f.m, 2 ^ f.k)

\* caller s has an encoded packet in its buffer
Encoded(s) ==
    /\ op.fn \in {"CanBus_CreatePacket_Ctl", "CanBus_CreatePacket_Ctl_Simple"}
    /\ ret[s]

\* the last call was an encode by caller s with both pointers valid
EncodeCall(s) ==
    /\ op.fn \in {"CanBus_CreatePacket_Ctl", "CanBus_CreatePacket_Ctl_Simple"}
    /\ op.slot = s
    /\ ~op.structNull
    /\ ~op.dataNull

Word(data, i) == data[i] * 256 + data[i + 1]

ExampleCtl == CtlOf(TRUE, FALSE, 1600, 36000, 1700)

ExampleCtlBytes ==
    [i \in 0 .. 7 |-> CASE i = 0 -> 128 [] i = 1 -> 0 [] i = 2 -> 160 [] i = 3 -> 14
                        [] i = 4 -> 16 [] i = 5 -> 0 [] i = 6 -> 170 [] OTHER -> 0]

SameSaturated(a, b, max) ==
    \/ a = b
    \/ (a.m <= 0 /\ b.m <= 0)
    \/ /\ (F32GtInt(a, max) \/ a = F32FromInt(max))
       /\ (F32GtInt(b, max) \/ b = F32FromInt(max))

\* C3: setpoints are saturated to 0..500 A, 0..10000 V, 0..1500 A before
\* scaling: two encodes whose flags agree and whose setpoints agree after
\* saturation (any iac >= 500 with 500, any vout >= 10000 with 10000, any
\* iout >= 1500 with 1500, any negative with 0) leave the same bytes.
C3_SaturatedSameBytes ==
    (/\ Encoded(1) /\ Encoded(2)
     /\ ctl[1].can_enable = ctl[2].can_enable
     /\ ctl[1].led3_enable = ctl[2].led3_enable
     /\ SameSaturated(ctl[1].iac_max_A, ctl[2].iac_max_A, 500)
     /\ SameSaturated(ctl[1].vout_max_V, ctl[2].vout_max_V, 10000)
     /\ SameSaturated(ctl[1].iout_max_A, ctl[2].iout_max_A, 1500))
    => can_data[1] = can_data[2]

\* a <= b for floats of the input grid
F32Le(a, b) == F32ToHundredths(a) <= F32ToHundredths(b)

\* C4: no setpoint wraps: of two encodes, the one with the smaller (or equal)
\* physical input has the smaller (or equal) 16-bit value in the frame, for
\* each of the three fields; and a voltage in [0, 10000] V is written as
\* vout x 10, not reduced modulo 2^16.
C4_NoWrap ==
    /\ (Encoded(1) /\ Encoded(2)) =>
          /\ F32Le(ctl[1].iac_max_A, ctl[2].iac_max_A)
                => Word(can_data[1], 1) <= Word(can_data[2], 1)
          /\ F32Le(ctl[1].vout_max_V, ctl[2].vout_max_V)
                => Word(can_data[1], 3) <= Word(can_data[2], 3)
          /\ F32Le(ctl[1].iout_max_A, ctl[2].iout_max_A)
                => Word(can_data[1], 5) <= Word(can_data[2], 5)
    /\ \A s \in Slots :
          (/\ Encoded(s)
           /\ F32ToHundredths(ctl[s].vout_max_V) >= 0
           /\ F32ToHundredths(ctl[s].vout_max_V) <= 1000000)
          => Word(can_data[s], 3) = F32ToHundredths(ctl[s].vout_max_V) \div 10

\* the setpoints of caller s lie in 0..500 A, 0..10000 V, 0..1500 A
InRange(s) ==
    /\ F32ToHundredths(ctl[s].iac_max_A) \in 0 .. 50000
    /\ F32ToHundredths(ctl[s].vout_max_V) \in 0 .. 1000000
    /\ F32ToHundredths(ctl[s].iout_max_A) \in 0 .. 150000

\* |a - b| <= 0.1, to the hundredth
WithinTenth(a, b) ==
    LET d == F32ToHundredths(a) - F32ToHundredths(b)
    IN  d <= 10 /\ d >= -10

\* C5: for in-range setpoints, reading the encoded frame back as
\* CanBus_Debug_PrintCtl does returns the flags and each physical value
\* within 0.1 of the input.
C5_RoundTrip ==
    \A s \in Slots :
        (EncodeCall(s) /\ InRange(s)) =>
            LET d == Debug_PrintCtl(can_data[s])
            IN  /\ d.can_enable = ctl[s].can_enable
                /\ d.led3 = ctl[s].led3_enable
                /\ WithinTenth(d.iac, ctl[s].iac_max_A)
                /\ WithinTenth(d.vout, ctl[s].vout_max_V)
                /\ WithinTenth(d.iout, ctl[s].iout_max_A)

\* the integer nearest to h / 10 (h >= 0, halves away from zero as round())
RoundTenths(h) == (h + 5) \div 10

\* C6: for in-range setpoints on the grid of hundredths, the raw value
\* encoded is round(p / 0.1), the integer nearest to p x 10, not its floor.
C6_RawIsRounded ==
    \A s \in Slots :
        (EncodeCall(s) /\ InRange(s)) =>
            /\ raw[s].iac = RoundTenths(F32ToHundredths(ctl[s].iac_max_A))
            /\ raw[s].vout = RoundTenths(F32ToHundredths(ctl[s].vout_max_V))
            /\ raw[s].iout = RoundTenths(F32ToHundredths(ctl[s].iout_max_A))

(***************************************************************************)
(* Properties of the fault decode (level 2).                               *)
(***************************************************************************)
\* the last call was CanBus_DecodePacket_Fault with both pointers valid
DecodeFaultCall ==
    /\ op.fn = "CanBus_DecodePacket_Fault"
    /\ ~op.structNull
    /\ ~op.dataNull

\* bytes 1..7 are all 0xFF
SentinelFrame(d) == \A i \in 1 .. 7 : d[i] = 255

\* C7: CanBus_IsNoFaultDetected returns true exactly when bytes 1..7 are all
\* 0xFF, and returns the same for every value of byte 0.
C7_IsNoFaultDetected ==
    op.fn = "CanBus_IsNoFaultDetected" =>
        /\ fret = SentinelFrame(fault_data)
        /\ \A b \in Byte : CanBus_IsNoFaultDetected([fault_data EXCEPT ![0] = b]) = fret

C7_Witness ==
    /\ op.fn = "CanBus_IsNoFaultDetected"
    /\ fret = TRUE
    /\ fault_data[0] = 0

\* C8: on a frame whose bytes 1..7 are all 0xFF, decoding a fault frame
\* reports "no fault" and interprets no field: every path that decodes
\* (CanBus_DecodePacket_Fault, CanBus_Debug_PrintFault) leaves the struct as
\* it was.
C8_SentinelPrecedence ==
    (/\ op.fn \in {"CanBus_DecodePacket_Fault", "CanBus_Debug_PrintFault"}
     /\ ~op.structNull /\ ~op.dataNull
     /\ SentinelFrame(fault_data))
    => (op.written = {} /\ fault = fault0)

ExampleFault ==
    [i \in 0 .. 7 |-> CASE i = 0 -> 65 [] i = 1 -> 1 [] i = 2 -> 168 [] i = 3 -> 23
                        [] i = 4 -> 0 [] i = 5 -> 30 [] i = 6 -> 0 [] OTHER -> 120]

C10_UnknownLevel ==
    (DecodeFaultCall /\ fault_data[3] % 4 = 1) =>
        /\ fret = TRUE
        /\ fault.failure_level \notin {FAILURE_WARNING, FAILURE_SOFT, FAILURE_HARD}
        /\ "failure_level" \in op.written

(***************************************************************************)
(* Decoders and request encoder.                                           *)
(***************************************************************************)
Decoders == {DecoderOf(id) : id \in RxIds}

\* the last call was decoder fn called by caller s with both pointers valid
RxDecoded(s, fn) ==
    /\ op.fn = fn
    /\ op.slot = s
    /\ ~op.structNull
    /\ ~op.dataNull

\* C11: decoding is deterministic: the same buffer decoded twice by the same
\* decoder, into two structs whose prior contents may differ, leaves the two
\* structs equal in every field.
C11_Deterministic ==
    (dret[1] /\ dret[2]) => dec[1] = dec[2]

\* C12: CanBus_DecodePacket_Tst2 reads byte 0 as baudrate = bits 7-6, ID type
\* = bit 5, AC control = bits 4-3, range = bits 2-1, three-phase = bit 0, and
\* byte 1 as slave = bit 7, model = bit 6, ID setting = bits 5-2, parallel
\* control = bit 1, air cooler = bit 0.
C12_Tst2Layout ==
    RxDecoded(1, "CanBus_DecodePacket_Tst2") =>
        LET b0 == rx_data[0]
            b1 == rx_data[1]
            t  == dec[1]
        IN  /\ t.baudrate = b0 \div 64
            /\ t.id_type = (b0 \div 32) % 2
            /\ t.iac_control = (b0 \div 8) % 4
            /\ t.range = (b0 \div 2) % 4
            /\ t.three_phase = (b0 % 2 = 1)
            /\ t.slave = (b1 \div 128 = 1)
            /\ t.evc_model = (b1 \div 64) % 2
            /\ t.id_setting = (b1 \div 4) % 16
            /\ t.parallel_ctrl = ((b1 \div 2) % 2 = 1)
            /\ t.air_cooler = (b1 % 2 = 1)

\* the fields in which the structs a and b differ
FieldsChanged(a, b) == {f \in DOMAIN a : a[f] # b[f]}

\* C13: in every decoder no input bit feeds two output fields: inverting any
\* one bit of the buffer changes at most one field of the decoded struct.
C13_NoOverlap ==
    \A fn \in Decoders :
        RxDecoded(1, fn) =>
            \A i \in 0 .. 7, b \in 0 .. 7 :
                Cardinality(FieldsChanged(dec[1], Decode(fn, FlipBit(rx_data, i, b), dec0[1]))) <= 1

RequestFns ==
    {"CanBus_CreatePacket_Req", "CanBus_Request_FaultActive", "CanBus_Request_FaultInactive",
     "CanBus_Request_Software", "CanBus_Request_SerialNumber"}

\* the last call was a request encode with a valid buffer
ReqCall == op.fn \in RequestFns /\ ~op.dataNull

\* C15: CanBus_CreatePacket_Req returns true and writes byte0 = 0x80 if
\* enable else 0x00, byte1 = 0x00, byte2 = 0x06, byte3 = the request code
\* (0x1C inactive faults, 0x1D active faults, 0x1E software, 0x1F serial
\* number); each wrapper uses enable = true and its own code, so that bytes
\* 2-3 read big-endian are the identifier of the reply: 0x061D, 0x061C,
\* 0x061E, 0x061F.
C15_ReqLayout ==
    ReqCall =>
        /\ req_ret = TRUE
        /\ req_data[1] = 0
        /\ req_data[2] = 6
        /\ req_data[3] \in {28, 29, 30, 31}
        /\ op.fn = "CanBus_CreatePacket_Req" =>
              /\ req_data[0] = IF req.enable THEN 128 ELSE 0
              /\ req_data[3] = req.request_type
        /\ op.fn # "CanBus_CreatePacket_Req" => req_data[0] = 128
        /\ op.fn = "CanBus_Request_FaultActive" => Word(req_data, 2) = CAN_ID_FLTA
        /\ op.fn = "CanBus_Request_FaultInactive" => Word(req_data, 2) = CAN_ID_FLTP
        /\ op.fn = "CanBus_Request_Software" => Word(req_data, 2) = CAN_ID_SW
        /\ op.fn = "CanBus_Request_SerialNumber" => Word(req_data, 2) = CAN_ID_SN

C15_Witness ==
    /\ op.fn = "CanBus_Request_FaultActive"
    /\ ~op.dataNull
    /\ req_ret = TRUE
    /\ req_data[0] = 128
    /\ req_data[3] = 29

\* C16 as stated: the request encoder writes only bytes 0-3 and leaves every
\* byte at index 4 or higher as it was.
C16_TailUnchanged ==
    ReqCall => \A i \in 4 .. 7 : req_data[i] = req_data0[i]

\* C16: the request is bytes 0-3 of the caller's 8-byte buffer; the request
\* encoder fills the whole buffer, bytes 4-7 with 0x00 whatever they held.
C16_TailZeroed ==
    ReqCall =>
        /\ req_data[1] = 0
        /\ req_data[2] = 6
        /\ \A i \in 4 .. 7 : req_data[i] = 0

C16_Witness ==
    /\ op.fn = "CanBus_CreatePacket_Req"
    /\ ~op.dataNull
    /\ req_data0 = Filled(255)
    /\ req_data[7] = 0

\* raw x 0.005188 - 40 to the nearest hundredth
TempHundredths(temp_raw) == ((temp_raw * 5188 + 5000) \div 10000) - 4000

\* |a - b| <= tol for integers
Near(a, b, tol) == a - b <= tol /\ b - a <= tol

\* C17: CanBus_DecodePacket_Act1 decodes bytes 0-1 as iac = raw / 10, bytes
\* 2-3 as temperature = raw x 0.005188 - 40, bytes 4-5 as vout = raw / 10,
\* bytes 6-7 as iout = raw / 10, each raw read most significant byte first;
\* [0x00,0xA0,0x30,0xF7,0x0E,0x10,0x00,0xAA] gives 16.0 A, a temperature
\* within 0.1 of 25.0, 360.0 V and 17.0 A.
C17_Act1Decode ==
    RxDecoded(1, "CanBus_DecodePacket_Act1") =>
        /\ dret[1] = TRUE
        /\ F32ToHundredths(dec[1].iac_A) = 10 * Word(rx_data, 0)
        /\ Near(F32ToHundredths(dec[1].temp_C), TempHundredths(Word(rx_data, 2)), 1)
        /\ F32ToHundredths(dec[1].vout_V) = 10 * Word(rx_data, 4)
        /\ F32ToHundredths(dec[1].iout_A) = 10 * Word(rx_data, 6)
        /\ rx_data = Frame(ExampleAct1Frame) =>
              /\ dec[1].iac_A = F32FromInt(16)
              /\ Near(F32ToHundredths(dec[1].temp_C), 2500, 10)
              /\ dec[1].vout_V = F32FromInt(360)
              /\ dec[1].iout_A = F32FromInt(17)

C17_Witness ==
    /\ RxDecoded(1, "CanBus_DecodePacket_Act1")
    /\ rx_data = Frame(ExampleAct1Frame)
    /\ dec[1].vout_V = F32FromInt(360)
    /\ dec_raw[1].temp_raw = 12535

\* where each 16-bit field of a frame starts: the locals of the decoders and
\* the 16-bit fields of their structs
Offsets16(fn) ==
    CASE fn = "CanBus_DecodePacket_Act1" ->
            [iac_raw |-> 0, temp_raw |-> 2, vout_raw |-> 4, iout_raw |-> 6]
      [] fn = "CanBus_DecodePacket_Act2" ->
            [temp_raw |-> 0, power_raw |-> 2, prox_raw |-> 4, pilot_raw |-> 6]
      [] fn = "CanBus_DecodePacket_Act3" ->
            [fan_raw |-> 0, iacm1_raw |-> 2, iacm2_raw |-> 4, iacm3_raw |-> 6]
      [] fn = "CanBus_DecodePacket_Temp" ->
            [loghv_raw |-> 0, power1_raw |-> 2, power2_raw |-> 4, power3_raw |-> 6]
      [] fn = "CanBus_DecodePacket_Act4" ->
            [temp_raw |-> 0, iout1_raw |-> 2, iout2_raw |-> 4, iout3_raw |-> 6]
      [] fn = "CanBus_DecodePacket_Tst2" -> [vout_raw |-> 3, iout_raw |-> 5]
      [] fn = "CanBus_DecodePacket_Fault" -> [first_time_h |-> 4, last_time_h |-> 6]
      [] fn = "CanBus_DecodePacket_Tst1" -> [cnt_hours |-> 6]
      [] OTHER -> NoRaws

\* the 16-bit value named f that decoder fn left for caller s
Value16(s, f) == IF f \in DOMAIN dec_raw[s] THEN dec_raw[s][f] ELSE dec[s][f]

C19_UndeclaredPatterns ==
    /\ RxDecoded(1, "CanBus_DecodePacket_Fault") =>
          /\ rx_data[0] \div 64 \in {0, 3}
                => dec[1].frame_type \notin {FRAME_SINGLE, FRAME_MULTI}
          /\ \A v \in 0 .. 3 :
                v # rx_data[0] \div 64 =>
                    Decode("CanBus_DecodePacket_Fault",
                           [rx_data EXCEPT ![0] = 64 * v + (rx_data[0] % 64)],
                           dec0[1]).frame_type # dec[1].frame_type
    /\ RxDecoded(1, "CanBus_DecodePacket_Tst2") =>
          /\ (rx_data[1] \div 4) % 16 \in 2 .. 15
                => dec[1].id_setting \notin {ID_SINGLE_CHARGER, ID_RANGE_1_16}
          /\ \A v \in 0 .. 15 :
                v # (rx_data[1] \div 4) % 16 =>
                    Decode("CanBus_DecodePacket_Tst2",
                           [rx_data EXCEPT ![1] = 4 * v + (rx_data[1] % 4)],
                           dec0[1]).id_setting # dec[1].id_setting

C19_Witness ==
    /\ RxDecoded(1, "CanBus_DecodePacket_Tst2")
    /\ (rx_data[1] \div 4) % 16 = 15
    /\ dec[1].id_setting = 15

\* C20: a decoder given a buffer and a struct returns true, whatever the
\* eight bytes are.
C20_DecodeTotal ==
    \A fn \in Decoders : RxDecoded(1, fn) => dret[1] = TRUE

C20_Witness ==
    /\ RxDecoded(1, "CanBus_DecodePacket_Fault")
    /\ rx_data[3] % 4 = 1
    /\ dret[1] = TRUE

\* C21: the software and serial-number decoders copy the eight payload
\* bytes, every value included, in order into positions 0..7 of the text and
\* put the terminator 0 at position 8.
C21_TextCopy ==
    /\ RxDecoded(1, "CanBus_DecodePacket_Software") =>
          /\ \A i \in 0 .. 7 : dec[1].version[i] = rx_data[i]
          /\ dec[1].version[8] = 0
          /\ DOMAIN dec[1].version = 0 .. 8
    /\ RxDecoded(1, "CanBus_DecodePacket_SerialNumber") =>
          /\ \A i \in 0 .. 7 : dec[1].serial[i] = rx_data[i]
          /\ dec[1].serial[8] = 0
          /\ DOMAIN dec[1].serial = 0 .. 8

C21_Witness ==
    /\ RxDecoded(1, "CanBus_DecodePacket_Software")
    /\ rx_data[0] = 0
    /\ rx_data[5] = 200
    /\ dec[1].version[5] = 200

\* what the caller of an encode can observe afterwards: the value returned
\* and its buffer (the struct is passed as const and nothing else is written)
EncodeOutcome(s) == <<ret[s], can_data[s]>>

\* C22: an encode whose setpoint was clamped still returns true, and its
\* caller can tell it from an encode of the boundary value that was not
\* clamped: the two outcomes differ.
C22_ClampVisible ==
    ( /\ op.fn = "CanBus_CreatePacket_Ctl"
      /\ ret[1] /\ ret[2]
      /\ ctl[1].iac_max_A = F32FromHundredths(60000)
      /\ ctl[2] = [ctl[1] EXCEPT !.iac_max_A = F32FromHundredths(50000)] )
    => /\ ret[1] = TRUE
       /\ EncodeOutcome(1) # EncodeOutcome(2)

\* the decoded value v, in hundredths, is the temperature of the 16-bit raw
\* value at offset i
IsTemp(v, i) == Near(F32ToHundredths(v), TempHundredths(Word(rx_data, i)), 1)

\* the decoded value v, in hundredths, is n hundredths per count of the
\* 16-bit raw value at offset i
IsScaled(v, i, n) == F32ToHundredths(v) = n * Word(rx_data, i)

RxBit(i, b) == (rx_data[i] \div 2 ^ b) % 2 = 1

\* C26: the status decoder sets power_enable, error_latch, warn_limit,
\* lim_temp, warning_hv, bulks to bits 7, 6, 5, 3, 1, 0 of byte 0, and
\* inverting bit 4 or 2 of byte 0 or any bit of bytes 1-7 leaves the decoded
\* struct as it is.
C26_StatBits ==
    RxDecoded(1, "CanBus_DecodePacket_Stat") =>
        /\ dec[1] = [power_enable |-> RxBit(0, 7), error_latch |-> RxBit(0, 6),
                     warn_limit |-> RxBit(0, 5), lim_temp |-> RxBit(0, 3),
                     warning_hv |-> RxBit(0, 1), bulks |-> RxBit(0, 0)]
        /\ \A i \in 0 .. 7, b \in 0 .. 7 :
              (i # 0 \/ b \in {4, 2}) =>
                  Decode("CanBus_DecodePacket_Stat", FlipBit(rx_data, i, b), dec0[1]) = dec[1]

C26_Witness ==
    /\ RxDecoded(1, "CanBus_DecodePacket_Stat")
    /\ rx_data[0] = 8
    /\ dec[1].lim_temp
    /\ ~dec[1].bulks

\* the byte and the bit of each flag of CanPacket_Tst1_t
Tst1Bits ==
    [ack |-> <<0, 7>>, pr_compl |-> <<0, 6>>, pwr_ok |-> <<0, 5>>, vout_ok |-> <<0, 4>>,
     neutral |-> <<0, 3>>, led3 |-> <<0, 2>>, led618 |-> <<0, 1>>,
     ovp |-> <<1, 7>>, conn_open |-> <<1, 6>>, ther_fail |-> <<1, 2>>, rx618_fail |-> <<1, 0>>,
     bulk1_fail |-> <<2, 7>>, bulk2_fail |-> <<2, 6>>, bulk3_fail |-> <<2, 5>>,
     pump_on |-> <<2, 4>>, fan_on |-> <<2, 3>>, hv_rx_fail |-> <<2, 2>>,
     cooling_fail |-> <<2, 1>>, rx619_fail |-> <<2, 0>>,
     neutro1 |-> <<3, 7>>, neutro2 |-> <<3, 6>>, three_phase |-> <<3, 5>>,
     iac_fail |-> <<3, 2>>, ignition |-> <<3, 1>>, lv_battery_np |-> <<3, 0>>,
     prox_ok |-> <<4, 7>>, pilot_ok |-> <<4, 5>>, s2_ok |-> <<4, 3>>]

C29_Tst2ThreePhaseExample ==
    (RxDecoded(1, "CanBus_DecodePacket_Tst2") /\ rx_data = Frame(ExampleTst2ThreePhaseFrame)) =>
        /\ dec[1].baudrate = BAUDRATE_500KBIT
        /\ dec[1].id_type = ID_STANDARD_11BIT
        /\ dec[1].iac_control = IAC_EN61851
        /\ dec[1].range = RANGE_R4_EVO_USERS
        /\ dec[1].three_phase = TRUE
        /\ dec[1].slave = FALSE
        /\ dec[1].id_setting = ID_SINGLE_CHARGER
        /\ dec[1].iacm_max_set_A = F32FromInt(40)
        /\ dec[1].vout_max_set_V = F32FromInt(400)
        /\ dec[1].iout_max_set_A = F32FromInt(150)
        /\ dec[1].password = 165

\* C28: the three setpoints are carried little-endian as the packet
\* documentation and the examples say: (enable, no LED, 16 A, 360 V, 17 A)
\* encodes to [0x80,0xA0,0x00,0x10,0x0E,0xAA,0x00,0x00], (enable, LED, 16 A,
\* 500 V, 17 A) to [0x88,0xA0,0x00,0x88,0x13,0xAA,0x00,0x00], and disabled
\* with all setpoints 0 to eight 0x00 bytes.
C28_LittleEndianExamples ==
    EncodeCall(1) =>
        /\ ctl[1] = CtlOf(TRUE, FALSE, 1600, 36000, 1700)
              => can_data[1] = Frame(<<128, 160, 0, 16, 14, 170, 0, 0>>)
        /\ ctl[1] = CtlOf(TRUE, TRUE, 1600, 50000, 1700)
              => can_data[1] = Frame(<<136, 160, 0, 136, 19, 170, 0, 0>>)
        /\ ctl[1] = CtlOf(FALSE, FALSE, 0, 0, 0)
              => can_data[1] = Filled(0)

\* the value returned by the call c that a step makes
ReturnedAfter(c) ==
    IF c.fn = "CanBus_CreatePacket_Ctl" THEN ret'[c.slot]
    ELSE IF c.fn = "CanBus_CreatePacket_Req" THEN req_ret'
    ELSE dret'[c.slot]

\* the arguments of the call c that a step makes hold what they held before it
NothingWritten(c) ==
    IF c.fn = "CanBus_CreatePacket_Ctl" THEN can_data' = can_data /\ ctl' = ctl
    ELSE IF c.fn = "CanBus_CreatePacket_Req" THEN req_data' = req_data0 /\ req' = req
    ELSE dec'[c.slot] = dec0[c.slot] /\ rx_data' = rx_data

\* C25: every packet builder and decoder returns false when its buffer or
\* its struct argument is NULL and then writes nothing to the other argument;
\* in every other case it returns true.
C25_NullArguments ==
    [][ op'.fn \in Decoders \cup {"CanBus_CreatePacket_Ctl", "CanBus_CreatePacket_Req"} =>
          IF op'.structNull \/ op'.dataNull
          THEN ReturnedAfter(op') = FALSE /\ NothingWritten(op')
          ELSE ReturnedAfter(op') = TRUE ]_vars

C25_Witness ==
    /\ op.fn = "CanBus_DecodePacket_Temp"
    /\ op.structNull
    /\ ~op.dataNull
    /\ dret[1] = FALSE
    /\ dec[1] = dec0[1]
    /\ ret[1] = TRUE
    /\ req_ret = TRUE

\* C30: over any calls of CanBus_GenerateRandomPacket, interleaved or not,
\* srand is called exactly once, before any byte is generated, and the flag
\* seeded never goes back to false.
C30_SeededOnce ==
    /\ [](srand_calls <= 1)
    /\ []((\E t \in Slots : gen[t].returned > 0) => srand_calls >= 1)
    /\ [][seeded => seeded']_vars

\* what the call of thread t gives when it runs alone: the result of the
\* whole function applied to the arguments the thread started with
AloneResult(t) ==
    LET c == thr[t]
    IN  CASE c.fn = "CanBus_CreatePacket_Ctl" ->
               /\ c.local.iac \in CurrentAC_ToRawCAN(c.arg.iac_max_A)
               /\ c.local.vout \in Voltage_ToRawCan(c.arg.vout_max_V)
               /\ c.local.iout \in CurrentOut_ToRawCan(c.arg.iout_max_A)
               /\ c.data = Ctl_Bytes(c.arg, c.local.iac, c.local.vout, c.local.iout)
          [] c.fn = "CanBus_CreatePacket_Req" ->
               c.data = Req_Bytes(c.arg.enable, c.arg.request_type, c.data0)
          [] c.fn = "CanBus_DecodePacket_Temp" ->
               /\ c.data = c.data0
               /\ c.out = Temp_Decode(c.data0)

====
